---- MODULE Spec2Model ----
(***************************************************************************)
(* A model of apple_health_data_parser.py: the line sanitizer              *)
(* (preprocess_to_temp_file), the streaming flattener (xml_to_csv) and the *)
(* body-mass pipeline of main.                                             *)
(*                                                                         *)
(* Strings are sequences of tokens.  A token is a piece of text that the   *)
(* program never looks inside: the two halves of the marker '<!DOCTYPE',   *)
(* the two characters of ']>', the control character \x0b, a type prefix,  *)
(* a digit.  Substring search and replacement then work on tokens exactly  *)
(* as Python's work on characters.                                         *)
(*                                                                         *)
(* xml.etree.ElementTree is modelled as CPython's C accelerator behaves:   *)
(* Element.clear() drops the element's attribute dict and children, and a  *)
(* dict that was appended to a list beforehand keeps its content.          *)
(***************************************************************************)
EXTENDS Integers, Sequences, FiniteSets, TLC

VARIABLES
    \* preprocess_to_temp_file
    raw,            \* the document the first run was given
    infile,         \* the lines of the file being read
    pos,            \* index of the next line of infile
    skip_dtd,       \* the suppression flag
    outfile,        \* the lines written to temp_preprocessed_export.xml
    run,            \* 1: first run, 2: a second run over the first's output
    san_pc,         \* "idle", "loop", "done"
    \* xml_to_csv
    doc,            \* the parsed document, as built by the parser
    attrib,         \* path -> the element's current attribute dict
    children,       \* path -> the element's current child list
    ev,             \* index of the next 'end' event
    attribute_list, \* the list of dicts collected so far
    health_df,      \* the DataFrame: [columns, data]
    error,          \* "none", or the exception that ended the function
    xml_pc,         \* "idle", "parse", "frame", "reorder", "sort", "done", "raised"
    \* main
    body_mass,      \* the DataFrame of main's pipeline
    main_pc         \* "idle", "filter", "select", "truncate", "sort", "dedup", "done", "raised"

sanVars == <<raw, infile, pos, skip_dtd, outfile, run, san_pc>>
xmlVars == <<doc, attrib, children, ev, attribute_list, xml_pc>>
mainVars == <<body_mass, main_pc>>
vars == <<raw, infile, pos, skip_dtd, outfile, run, san_pc,
          doc, attrib, children, ev, attribute_list, health_df, error, xml_pc,
          body_mass, main_pc>>

(***************************************************************************)
(* Strings                                                                 *)
(***************************************************************************)

\* s[i..] starts with the token sequence m
StartsAt(s, i, m) ==
    /\ i + Len(m) - 1 <= Len(s)
    /\ \A k \in 1..Len(m) : s[i + k - 1] = m[k]

\* Python's  m in s
Contains(s, m) == \E i \in 1..(Len(s) + 1) : StartsAt(s, i, m)

\* Python's  s.replace(m, "")  for a one-token m
RECURSIVE RemoveToken(_, _)
RemoveToken(s, t) ==
    IF s = <<>> THEN <<>>
    ELSE IF Head(s) = t THEN RemoveToken(Tail(s), t)
    ELSE <<Head(s)>> \o RemoveToken(Tail(s), t)

\* s.replace(m, "") that stops after the first occurrence
RECURSIVE RemoveFirstToken(_, _)
RemoveFirstToken(s, t) ==
    IF s = <<>> THEN <<>>
    ELSE IF Head(s) = t THEN Tail(s)
    ELSE <<Head(s)>> \o RemoveFirstToken(Tail(s), t)

(***************************************************************************)
(* preprocess_to_temp_file                                                 *)
(***************************************************************************)

VT == "\\x0b"
DoctypeOpen == <<"<!DOC", "TYPE">>
DoctypeClose == <<"]", ">">>

strip_first_only(line) == RemoveFirstToken(line, VT)

strip_invisible_character(line) == RemoveToken(line, VT)

HasDoctypeOpen(line) == Contains(line, DoctypeOpen)

HasDoctypeClose(line) == Contains(line, DoctypeClose)

close_before_write(line, skip) ==
    IF HasDoctypeOpen(line) /\ ~HasDoctypeClose(line) THEN TRUE ELSE skip

\* skip_dtd after line 44-45
FlagAfterOpen(line, skip) == IF HasDoctypeOpen(line) THEN TRUE ELSE skip

\* lines 46-48: what the iteration appends to the output file
Written(line, skip) ==
    IF ~skip THEN <<strip_invisible_character(line)>> ELSE <<>>

\* skip_dtd after line 49-50; the test reads the stripped line when it was written
FlagAfterClose(line, skip) ==
    LET seen == IF ~skip THEN strip_invisible_character(line) ELSE line
    IN  IF HasDoctypeClose(seen) THEN FALSE ELSE skip

MaxLines == 3

Lines ==
    { <<"a">>, <<"b">>,
      <<VT, "a", VT>>,
      <<"<!DOC", "TYPE">>,
      <<"]", ">">>,
      <<"<!DOC", "TYPE", "]", ">">>,
      <<"<!DOC", VT, "TYPE">>,
      <<"]", VT, ">">> }

Documents == UNION { [1..n -> Lines] : n \in 0..MaxLines }

xmlIdle ==
    /\ doc = <<>>
    /\ attrib = <<>>
    /\ children = <<>>
    /\ ev = 0
    /\ attribute_list = <<>>
    /\ health_df = <<>>
    /\ error = "none"
    /\ xml_pc = "idle"

mainIdle ==
    /\ body_mass = <<>>
    /\ main_pc = "idle"

sanIdle ==
    /\ raw = <<>>
    /\ infile = <<>>
    /\ pos = 0
    /\ skip_dtd = FALSE
    /\ outfile = <<>>
    /\ run = 0
    /\ san_pc = "idle"

InitSan ==
    /\ raw \in Documents
    /\ infile = raw
    /\ pos = 1
    /\ skip_dtd = FALSE
    /\ outfile = <<>>
    /\ run = 1
    /\ san_pc = "loop"
    /\ xmlIdle
    /\ mainIdle

\* one iteration of the for loop, lines 43-50
PreprocessLine ==
    /\ san_pc = "loop"
    /\ pos <= Len(infile)
    /\ LET line == infile[pos]
           s1 == FlagAfterOpen(line, skip_dtd)
       IN  /\ outfile' = outfile \o Written(line, s1)
           /\ skip_dtd' = FlagAfterClose(line, s1)
    /\ pos' = pos + 1
    /\ UNCHANGED <<raw, infile, run, san_pc>>
    /\ UNCHANGED <<xmlVars, health_df, error, mainVars>>

\* the loop ends, both files are closed, line 53
PreprocessReturn ==
    /\ san_pc = "loop"
    /\ pos > Len(infile)
    /\ san_pc' = "done"
    /\ UNCHANGED <<raw, infile, pos, skip_dtd, outfile, run>>
    /\ UNCHANGED <<xmlVars, health_df, error, mainVars>>

\* preprocess_to_temp_file called on the file it wrote
PreprocessAgain ==
    /\ san_pc = "done"
    /\ run = 1
    /\ infile' = outfile
    /\ pos' = 1
    /\ skip_dtd' = FALSE
    /\ outfile' = <<>>
    /\ run' = 2
    /\ san_pc' = "loop"
    /\ UNCHANGED raw
    /\ UNCHANGED <<xmlVars, health_df, error, mainVars>>

NextSan == PreprocessLine \/ PreprocessReturn \/ PreprocessAgain

SpecSan == InitSan /\ [][NextSan]_vars

(***************************************************************************)
(* Claims about preprocess_to_temp_file (checked under SpecSan)            *)
(***************************************************************************)

HasVT(line) == \E i \in 1..Len(line) : line[i] = VT
WithoutVT(line) == SelectSeq(line, LAMBDA t : t /= VT)
OpensBlock(line) == \E i \in 1..(Len(line) - 1) : line[i] = "<!DOC" /\ line[i + 1] = "TYPE"
ClosesBlock(line) == \E i \in 1..(Len(line) - 1) : line[i] = "]" /\ line[i + 1] = ">"

\* line k of d lies in a suppression window: an open-marker line at or before
\* it, with no close-marker line from there up to the line before k
Suppressed(d, k) ==
    \E i \in 1..k : OpensBlock(d[i]) /\ \A m \in i..(k - 1) : ~ClosesBlock(d[m])

\* the lines of d outside every window, in order, without the control character
Elided(d) ==
    LET F[k \in 0..Len(d)] ==
            IF k = 0 THEN <<>>
            ELSE IF Suppressed(d, k) THEN F[k - 1]
            ELSE Append(F[k - 1], WithoutVT(d[k]))
    IN  F[Len(d)]

StripAll(d) == [k \in 1..Len(d) |-> WithoutVT(d[k])]

FirstRunDone == san_pc = "done" /\ run = 1
SecondRunDone == san_pc = "done" /\ run = 2

\* C4: no line written to the cleaned output contains the control character
\* \x0b, whatever the input and wherever the markers are.
C4_NoControlCharWritten ==
    \A i \in 1..Len(outfile) : ~HasVT(outfile[i])

C4_Witness ==
    /\ FirstRunDone
    /\ \E i \in 1..Len(raw) :
          /\ HasVT(raw[i])
          /\ \E j \in 1..Len(outfile) : outfile[j] = WithoutVT(raw[i])

\* C5: the sanitizer is idempotent: run on its own output, it writes that
\* output unchanged; equivalently the cleaned document holds no line with a
\* doctype-open marker and no control character.
C5_Idempotent ==
    SecondRunDone => outfile = infile

\* C6: with an open-marker line and, N >= 0 lines later, a close-marker line,
\* every line from the open line through the close line is absent from the
\* output and every line outside a window is written once, in input order,
\* verbatim except for the control character.  Stated for every document: the
\* output is the input without its windows; and for a document with a single
\* block at lines i..j, the output is the lines before i and after j.
C6_DoctypeElision ==
    FirstRunDone =>
        /\ outfile = Elided(raw)
        /\ \A i \in 1..Len(raw) : \A j \in i..Len(raw) :
              ( /\ OpensBlock(raw[i])
                /\ ClosesBlock(raw[j])
                /\ \A m \in i..(j - 1) : ~ClosesBlock(raw[m])
                /\ \A m \in (1..(i - 1)) \cup ((j + 1)..Len(raw)) : ~OpensBlock(raw[m]) )
              => outfile = StripAll(SubSeq(raw, 1, i - 1) \o SubSeq(raw, j + 1, Len(raw)))

C6_Witness ==
    /\ FirstRunDone
    /\ \E i \in 1..Len(raw) : \E j \in (i + 1)..Len(raw) :
          /\ OpensBlock(raw[i]) /\ ~ClosesBlock(raw[i])
          /\ ClosesBlock(raw[j])
          /\ j < Len(raw)
          /\ ~OpensBlock(raw[Len(raw)])
          /\ outfile = <<WithoutVT(raw[Len(raw)])>>

(***************************************************************************)
(* Dicts (insertion-ordered, as Python's) and the parsed document          *)
(***************************************************************************)

DictValues(d) == [i \in 1..Len(d) |-> d[i][2]]
DictHas(d, k) == \E i \in 1..Len(d) : d[i][1] = k
DictGet(d, k) == d[CHOOSE i \in 1..Len(d) : d[i][1] = k][2]

\* d.update({k: v}): an existing key keeps its place and takes the new value
DictUpdate(d, k, v) ==
    IF DictHas(d, k)
    THEN [i \in 1..Len(d) |-> IF d[i][1] = k THEN <<k, v>> ELSE d[i]]
    ELSE Append(d, <<k, v>>)

\* An element is [attrib, children]; a path is the element's position under
\* the root: <<>> the root, <<i>> its i-th child, <<i, j>> that child's j-th.
RECURSIVE ElemAt(_, _)
ElemAt(e, path) ==
    IF path = <<>> THEN e ELSE ElemAt(e.children[Head(path)], Tail(path))

RECURSIVE PathsUnder(_, _)
PathsUnder(e, prefix) ==
    {prefix} \cup
    UNION { PathsUnder(e.children[i], Append(prefix, i)) : i \in 1..Len(e.children) }

Paths(d) == PathsUnder(d, <<>>)

ChildPaths(d, path) ==
    [i \in 1..Len(ElemAt(d, path).children) |-> Append(path, i)]

\* the 'end' events of iterparse: document order, children before parent
RECURSIVE EndEvents(_, _)
EndEvents(e, prefix) ==
    LET F[i \in 0..Len(e.children)] ==
            IF i = 0 THEN <<>>
            ELSE F[i - 1] \o EndEvents(e.children[i], Append(prefix, i))
    IN  Append(F[Len(e.children)], prefix)

Events(d) == EndEvents(d, <<>>)

(***************************************************************************)
(* xml_to_csv: the event loop, lines 67-80                                 *)
(***************************************************************************)

\* lines 72-76: the children's two-value dicts merged into child_attrib
MergeMetadata(child_attrib, kids, attr) ==
    LET F[i \in 0..Len(kids)] ==
            IF i = 0 THEN child_attrib
            ELSE LET metadata_values == DictValues(attr[kids[i]])
                 IN  IF Len(metadata_values) = 2
                     THEN DictUpdate(F[i - 1], metadata_values[1], metadata_values[2])
                     ELSE F[i - 1]
    IN  F[Len(kids)]

top_level_only(list, path, row) ==
    IF Len(path) = 1 THEN Append(list, row) ELSE list

\* line 77, reached for the element of every 'end' event
Collected(list, path, row) == Append(list, row)

\* one iteration of the loop over the 'end' events
ParseEvent ==
    /\ xml_pc = "parse"
    /\ ev <= Len(Events(doc))
    /\ LET elem == Events(doc)[ev]
           child_attrib == MergeMetadata(attrib[elem], children[elem], attrib)
       IN  /\ attribute_list' = Collected(attribute_list, elem, child_attrib)
           \* elem.clear()
           /\ attrib' = [attrib EXCEPT ![elem] = <<>>]
           /\ children' = [children EXCEPT ![elem] = <<>>]
    /\ ev' = ev + 1
    /\ UNCHANGED <<doc, xml_pc, health_df, error>>
    /\ UNCHANGED <<sanVars, mainVars>>

(***************************************************************************)
(* Python string order and the DataFrame                                   *)
(***************************************************************************)

\* ord() of the one-character tokens that occur in date strings
CharCode(c) ==
    CASE c = " " -> 32 [] c = "-" -> 45 [] c = "0" -> 48 [] c = "1" -> 49
      [] c = "2" -> 50 [] c = "3" -> 51 [] c = "4" -> 52 [] c = "5" -> 53
      [] c = "6" -> 54 [] c = "7" -> 55 [] c = "8" -> 56 [] c = "9" -> 57
      [] c = ":" -> 58

\* Python's  a < b  on str: the first differing character decides, and a
\* proper prefix is smaller
RECURSIVE StrLess(_, _)
StrLess(a, b) ==
    IF b = <<>> THEN FALSE
    ELSE IF a = <<>> THEN TRUE
    ELSE IF Head(a) = Head(b) THEN StrLess(Tail(a), Tail(b))
    ELSE CharCode(Head(a)) < CharCode(Head(b))

Range(q) == { q[i] : i \in 1..Len(q) }
HasDuplicates(q) == \E i, j \in 1..Len(q) : i /= j /\ q[i] = q[j]

\* a missing cell (NaN) is <<>>, a cell holding the string v is <<v>>
NaN == <<>>

\* pd.DataFrame(list of dicts): the columns are the keys in first-seen order
FirstSeenKeys(list) ==
    LET AddKeys(cols, d) ==
            LET G[i \in 0..Len(d)] ==
                    IF i = 0 THEN cols
                    ELSE IF G[i - 1] /= <<>> /\ d[i][1] \in Range(G[i - 1])
                         THEN G[i - 1]
                         ELSE Append(G[i - 1], d[i][1])
            IN  G[Len(d)]
        F[r \in 0..Len(list)] ==
            IF r = 0 THEN <<>> ELSE AddKeys(F[r - 1], list[r])
    IN  F[Len(list)]

DataFrame(list) ==
    LET cols == FirstSeenKeys(list)
    IN  [ columns |-> cols,
          data |-> [r \in 1..Len(list) |->
                      [c \in 1..Len(cols) |->
                          IF DictHas(list[r], cols[c])
                          THEN <<DictGet(list[r], cols[c])>>
                          ELSE NaN]] ]

HasColumn(df, name) == \E c \in 1..Len(df.columns) : df.columns[c] = name
ColumnIndex(df, name) == CHOOSE c \in 1..Len(df.columns) : df.columns[c] = name

\* the cells of column `name`, one per row
Column(df, name) ==
    [r \in 1..Len(df.data) |-> df.data[r][ColumnIndex(df, name)]]

\* Series.str.replace(pat, ""): NaN stays NaN
StrReplaceCell(cell, pat) ==
    IF cell = NaN THEN NaN ELSE <<RemoveToken(cell[1], pat)>>

\* df.<name> = df.<name>.str.replace(pat, "")
ReplaceInColumn(df, name, pat) ==
    LET k == ColumnIndex(df, name)
    IN  [df EXCEPT !.data =
            [r \in 1..Len(df.data) |->
                [c \in 1..Len(df.columns) |->
                    IF c = k THEN StrReplaceCell(df.data[r][c], pat)
                    ELSE df.data[r][c]]]]

\* df.columns = df.columns.str.replace(pat, "")
ReplaceInColumnNames(df, pat) ==
    [df EXCEPT !.columns =
        [c \in 1..Len(df.columns) |-> RemoveToken(df.columns[c], pat)]]

\* df.reindex(labels, axis='columns') on unique columns: a label that is
\* no column yields a column of NaN
Reindex(df, labels) ==
    [ columns |-> labels,
      data |-> [r \in 1..Len(df.data) |->
                  [c \in 1..Len(labels) |->
                      IF HasColumn(df, labels[c])
                      THEN df.data[r][ColumnIndex(df, labels[c])]
                      ELSE NaN]] ]

\* every listing of the set S: the iteration order of a Python set
RECURSIVE Listings(_)
Listings(S) ==
    IF S = {} THEN {<<>>}
    ELSE UNION { { <<x>> \o rest : rest \in Listings(S \ {x}) } : x \in S }

(***************************************************************************)
(* xml_to_csv: lines 82-123                                                *)
(***************************************************************************)

TypeName == <<"type">>
StartDate == <<"startDate">>
CreationDate == <<"creationDate">>
ValueName == <<"value">>

\* lines 93-99
shifted_cols_base ==
    << TypeName, <<"sourceName">>, ValueName, <<"unit">>,
       StartDate, <<"endDate">>, CreationDate >>

\* lines 102, 106, 110
LoopColumns ==
    << <<"com.loopkit.InsulinKit.MetadataKeyProgrammedTempBasalRate">>,
       <<"com.loopkit.InsulinKit.MetadataKeyScheduledBasalRate">>,
       <<"com.loudnate.CarbKit.HKMetadataKey.AbsorptionTimeMinutes">> >>

\* lines 82-89; health_df.type raises AttributeError when no dict has 'type'
BuildFrame ==
    /\ xml_pc = "parse"
    /\ ev > Len(Events(doc))
    /\ LET df == DataFrame(attribute_list)
       IN  IF ~HasColumn(df, TypeName)
           THEN /\ health_df' = df
                /\ error' = "AttributeError"
                /\ xml_pc' = "raised"
           ELSE /\ health_df' =
                      ReplaceInColumnNames(
                          ReplaceInColumn(
                              ReplaceInColumn(df, TypeName, "HKQuantityTypeIdentifier"),
                              TypeName, "HKCategoryTypeIdentifier"),
                          "HKCharacteristicTypeIdentifier")
                /\ error' = "none"
                /\ xml_pc' = "reorder"
    /\ UNCHANGED <<doc, attrib, children, ev, attribute_list>>
    /\ UNCHANGED <<sanVars, mainVars>>

\* lines 102-112
ShiftedCols(original_cols) ==
    shifted_cols_base \o SelectSeq(LoopColumns, LAMBDA m : m \in Range(original_cols))

no_difference(original_cols, shifted_cols) == Range(original_cols)

\* line 114, before list() fixes an order
RemainingSet(original_cols, shifted_cols) ==
    Range(original_cols) \ Range(shifted_cols)

\* lines 92-116; reindex raises ValueError on duplicate column labels
ReorderColumns ==
    /\ xml_pc = "reorder"
    /\ LET original_cols == health_df.columns
           shifted_cols == ShiftedCols(original_cols)
       IN  \E remaining_cols \in Listings(RemainingSet(original_cols, shifted_cols)) :
               LET reordered_cols == shifted_cols \o remaining_cols
               IN  IF HasDuplicates(original_cols)
                   THEN /\ error' = "ValueError"
                        /\ xml_pc' = "raised"
                        /\ UNCHANGED health_df
                   ELSE /\ health_df' = Reindex(health_df, reordered_cols)
                        /\ xml_pc' = "sort"
                        /\ UNCHANGED error
    /\ UNCHANGED <<doc, attrib, children, ev, attribute_list>>
    /\ UNCHANGED <<sanVars, mainVars>>

length_then_text(a, b) ==
    \/ Len(a) < Len(b)
    \/ Len(a) = Len(b) /\ StrLess(a, b)

\* the comparison sort_values applies to two keys of an object column
KeyLess(a, b) == StrLess(a, b)

\* the orders in which a descending sort may leave the rows of S: no row may
\* precede a row with a greater key; equal keys come in any order
RECURSIVE DescendingOrders(_, _)
DescendingOrders(S, key) ==
    IF S = {} THEN {<<>>}
    ELSE UNION { { <<i>> \o rest : rest \in DescendingOrders(S \ {i}, key) } :
                 i \in { i \in S : \A j \in S : ~KeyLess(key[i][1], key[j][1]) } }

RECURSIVE AscendingOrders(_, _)
AscendingOrders(S, key) ==
    IF S = {} THEN {<<>>}
    ELSE UNION { { <<i>> \o rest : rest \in AscendingOrders(S \ {i}, key) } :
                 i \in { i \in S : \A j \in S : ~KeyLess(key[j][1], key[i][1]) } }

\* the rows with NaN keys, in their present order (na_position='last')
NaNRows(key) ==
    SelectSeq([r \in 1..Len(key) |-> r], LAMBDA r : key[r] = NaN)

KeyedRows(key) == { r \in 1..Len(key) : key[r] /= NaN }

TakeRows(df, order) ==
    [df EXCEPT !.data = [k \in 1..Len(order) |-> df.data[order[k]]]]

\* line 119 and the return of line 123
SortValues ==
    /\ xml_pc = "sort"
    /\ LET key == Column(health_df, StartDate)
       IN  \E order \in DescendingOrders(KeyedRows(key), key) :
               health_df' = TakeRows(health_df, order \o NaNRows(key))
    /\ xml_pc' = "done"
    /\ UNCHANGED <<doc, attrib, children, ev, attribute_list, error>>
    /\ UNCHANGED <<sanVars, mainVars>>

(***************************************************************************)
(* The documents xml_to_csv is run on                                      *)
(***************************************************************************)

MaxRecords == 3

Leaf(a) == [attrib |-> a, children |-> <<>>]

RootAttrib == << <<<<"locale">>, <<"en_US">>>> >>

\* Record elements: a type, a startDate, and MetadataEntry children
RecordAttribs ==
    { << <<TypeName, <<"HKQuantityTypeIdentifier", "BodyMass">>>>,
         <<StartDate, <<"2">>>>,
         <<ValueName, <<"70">>>> >>,
      << <<TypeName, <<"HKCategoryTypeIdentifier", "SleepAnalysis">>>>,
         <<StartDate, <<"1", "0">>>> >>,
      << <<TypeName, <<"HKQuantityTypeIdentifier", "BasalEnergy">>>>,
         <<StartDate, <<"1">>>>,
         <<LoopColumns[2], <<"1">>>> >> }

\* other top-level elements, childless: one with a type and no startDate,
\* and the Me element, whose attribute names carry the long prefix
OtherAttribs ==
    { << <<TypeName, <<"HKQuantityTypeIdentifier", "Height">>>>,
         <<<<"DateOfBirth">>, <<"1990">>>> >>,
      << <<<<"HKCharacteristicTypeIdentifier", "DateOfBirth">>, <<"1990">>>> >> }

Key == <<"key">>

ChildLists ==
    { <<>>,
      << Leaf(<< <<Key, <<"Foo">>>>, <<ValueName, <<"42">>>> >>) >>,
      << Leaf(<< <<Key, <<"Foo">>>> >>),
         Leaf(<< <<Key, <<"Bar">>>>, <<ValueName, <<"7">>>>, <<<<"unit">>, <<"kg">>>> >>) >> }

Records ==
    { [attrib |-> a, children |-> c] : a \in RecordAttribs, c \in ChildLists }
    \cup { Leaf(a) : a \in OtherAttribs }

XmlDocuments ==
    { [attrib |-> RootAttrib, children |-> rs] :
        rs \in UNION { [1..n -> Records] : n \in 0..MaxRecords } }

InitXml ==
    /\ doc \in XmlDocuments
    /\ attrib = [p \in Paths(doc) |-> ElemAt(doc, p).attrib]
    /\ children = [p \in Paths(doc) |-> ChildPaths(doc, p)]
    /\ ev = 1
    /\ attribute_list = <<>>
    /\ health_df = <<>>
    /\ error = "none"
    /\ xml_pc = "parse"
    /\ sanIdle
    /\ mainIdle

NextXml == ParseEvent \/ BuildFrame \/ ReorderColumns \/ SortValues

SpecXml == InitXml /\ [][NextXml]_vars

(***************************************************************************)
(* Claims about xml_to_csv (checked under SpecXml)                         *)
(***************************************************************************)

Returned == xml_pc = "done"

\* a top-level Record: an element that is a direct child of the root
RecordIndexes == 1..Len(doc.children)
RecordElem(i) == doc.children[i]

\* all elements of the document: the root, the Records, their children
NumElements ==
    LET F[i \in 0..Len(doc.children)] ==
            IF i = 0 THEN 0 ELSE F[i - 1] + 1 + Len(RecordElem(i).children)
    IN  1 + F[Len(doc.children)]

\* the index in attribute_list of the dict collected for Record i
RowIndexOfRecord(i) == CHOOSE k \in 1..Len(Events(doc)) : Events(doc)[k] = <<i>>

\* a MetadataEntry, as the document has it, exposes exactly two values
ValidEntry(m) == Len(m.attrib) = 2

ColumnName(name) == SelectSeq(name, LAMBDA t : t /= "HKCharacteristicTypeIdentifier")
CleanType(v) ==
    SelectSeq(v, LAMBDA t : t \notin {"HKQuantityTypeIdentifier", "HKCategoryTypeIdentifier"})

C2_MetadataMerged ==
    \A i \in RecordIndexes :
        LET r == RecordElem(i)
            k == RowIndexOfRecord(i)
        IN  k <= Len(attribute_list) =>
              /\ (Len(r.children) = 1 /\ ValidEntry(r.children[1])) =>
                    LET vals == DictValues(r.children[1].attrib)
                    IN  /\ DictHas(attribute_list[k], vals[1])
                        /\ DictGet(attribute_list[k], vals[1]) = vals[2]
              /\ (\A j \in 1..Len(r.children) : ~ValidEntry(r.children[j])) =>
                    attribute_list[k] = r.attrib

\* C3: every field name of a Record's own attributes, and every value[0] of
\* a valid MetadataEntry under a Record, is (after the column-name prefix
\* removal) a column of the returned Table.
C3_ColumnUnion ==
    Returned =>
        \A i \in RecordIndexes :
            LET r == RecordElem(i)
            IN  /\ \A a \in 1..Len(r.attrib) :
                      ColumnName(r.attrib[a][1]) \in Range(health_df.columns)
                /\ \A j \in 1..Len(r.children) :
                      ValidEntry(r.children[j]) =>
                          ColumnName(DictValues(r.children[j].attrib)[1])
                              \in Range(health_df.columns)

\* Python's a >= b on strings, stated directly: equal, or b a proper prefix
\* of a, or a has the greater character at the first difference
LexGeq(a, b) ==
    \/ a = b
    \/ \E k \in 1..Len(a) :
          /\ \A m \in 1..(k - 1) : m <= Len(b) /\ a[m] = b[m]
          /\ \/ k > Len(b)
             \/ k <= Len(b) /\ CharCode(a[k]) > CharCode(b[k])

\* the Table row that the collected dict d becomes, under the columns cols
TableRow(d, cols) ==
    [c \in 1..Len(cols) |->
        IF \E a \in 1..Len(d) : ColumnName(d[a][1]) = cols[c]
        THEN LET a == CHOOSE a \in 1..Len(d) : ColumnName(d[a][1]) = cols[c]
             IN  IF d[a][1] = TypeName THEN <<CleanType(d[a][2])>> ELSE <<d[a][2]>>
        ELSE NaN]

Count(q, x) == Cardinality({ i \in 1..Len(q) : q[i] = x })

\* C7: the returned Table is a permutation of the collected rows, descending
\* by the raw startDate string: of two rows that both have a startDate, the
\* earlier one's is lexicographically >= the later one's.
C7_SortedDescending ==
    Returned =>
        LET key == Column(health_df, StartDate)
            rows == [k \in 1..Len(attribute_list) |->
                        TableRow(attribute_list[k], health_df.columns)]
        IN  /\ Len(health_df.data) = Len(rows)
            /\ \A k \in 1..Len(rows) :
                  Count(health_df.data, rows[k]) = Count(rows, rows[k])
            /\ \A i, j \in 1..Len(key) :
                  (i < j /\ key[i] /= NaN /\ key[j] /= NaN)
                      => LexGeq(key[i][1], key[j][1])

C7_Witness ==
    /\ Returned
    /\ LET key == Column(health_df, StartDate)
       IN  \E i \in 1..(Len(key) - 2) :
              /\ key[i] = << <<"2">> >>
              /\ key[i + 1] = << <<"1", "0">> >>
              /\ key[i + 2] = << <<"1">> >>

SuppliedBySomeElement(f) ==
    \E p \in Paths(doc) : DictHas(ElemAt(doc, p).attrib, f)

Finished == xml_pc \in {"done", "raised"}

\* C8: when no element supplies some priority field, xml_to_csv still
\* returns a Table, in which that field is an empty cell in every row.
C8_MissingColumnsNeverRaise ==
    \A c \in 1..Len(shifted_cols_base) :
        LET f == shifted_cols_base[c]
        IN  (Finished /\ ~SuppliedBySomeElement(f)) =>
              /\ Returned
              /\ HasColumn(health_df, f)
              /\ \A r \in 1..Len(health_df.data) : Column(health_df, f)[r] = NaN

CollectedColumns ==
    UNION { { ColumnName(attribute_list[k][a][1]) : a \in 1..Len(attribute_list[k]) } :
            k \in 1..Len(attribute_list) }

\* C10: the columns begin with the seven priority names in their order, then
\* the recognised metadata names that are collected columns, in their fixed
\* order, then every remaining collected column exactly once; no collected
\* column is lost or duplicated.
C10_ColumnOrder ==
    xml_pc \in {"sort", "done"} =>
        LET cols == health_df.columns
            loop == SelectSeq(LoopColumns, LAMBDA m : m \in CollectedColumns)
            head == shifted_cols_base \o loop
        IN  /\ Len(cols) >= Len(head)
            /\ SubSeq(cols, 1, Len(head)) = head
            /\ ~HasDuplicates(cols)
            /\ CollectedColumns \subseteq Range(cols)
            /\ Range(cols) = CollectedColumns \cup Range(head)

C10_Witness ==
    /\ Returned
    /\ health_df.columns[8] = LoopColumns[2]
    /\ Len(health_df.columns) >= 10
    /\ \E c \in 9..Len(health_df.columns) : health_df.columns[c] = <<"DateOfBirth">>

(***************************************************************************)
(* main: the body-mass pipeline, lines 151-156                             *)
(*                                                                         *)
(* health_df stays the Table that xml_to_csv returned; body_mass holds the *)
(* frame as the pipeline transforms it (line 151 rebinds the name          *)
(* health_df to the filtered frame, line 153 introduces body_mass).        *)
(***************************************************************************)

DateLen == 10

BodyMass == <<"BodyMass">>

whole_string(v) == v

\* .str[:10]
DateOnly(v) == SubSeq(v, 1, IF Len(v) < DateLen THEN Len(v) ELSE DateLen)

\* line 151: health_df[health_df['type'] == 'BodyMass']; NaN equals nothing
FilterByType ==
    /\ main_pc = "filter"
    /\ LET type == Column(health_df, TypeName)
           keep == SelectSeq([r \in 1..Len(type) |-> r],
                             LAMBDA r : type[r] = <<BodyMass>>)
       IN  body_mass' = TakeRows(health_df, keep)
    /\ main_pc' = "select"
    /\ UNCHANGED <<sanVars, xmlVars, health_df, error>>

\* lines 152-153
columns_to_select == <<TypeName, CreationDate, ValueName>>

SelectColumns ==
    /\ main_pc = "select"
    /\ body_mass' = Reindex(body_mass, columns_to_select)
    /\ main_pc' = "truncate"
    /\ UNCHANGED <<sanVars, xmlVars, health_df, error>>

\* a column in which no row of the Table holds a string is a float column
HoldsStrings(df, name) ==
    \E r \in 1..Len(df.data) : Column(df, name)[r] /= NaN

\* line 154; the .str accessor raises AttributeError on a float column
TruncateCreationDate ==
    /\ main_pc = "truncate"
    /\ IF ~HoldsStrings(health_df, CreationDate)
       THEN /\ error' = "AttributeError"
            /\ main_pc' = "raised"
            /\ UNCHANGED body_mass
       ELSE /\ body_mass' =
                  [body_mass EXCEPT !.data =
                      [r \in 1..Len(body_mass.data) |->
                          [c \in 1..Len(body_mass.columns) |->
                              IF body_mass.columns[c] = CreationDate
                                 /\ body_mass.data[r][c] /= NaN
                              THEN <<DateOnly(body_mass.data[r][c][1])>>
                              ELSE body_mass.data[r][c]]]]
            /\ main_pc' = "sort"
            /\ UNCHANGED error
    /\ UNCHANGED <<sanVars, xmlVars, health_df>>

\* line 155: ascending, NaN last, equal keys in any order
SortByCreationDate ==
    /\ main_pc = "sort"
    /\ LET key == Column(body_mass, CreationDate)
       IN  \E order \in AscendingOrders(KeyedRows(key), key) :
               body_mass' = TakeRows(body_mass, order \o NaNRows(key))
    /\ main_pc' = "dedup"
    /\ UNCHANGED <<sanVars, xmlVars, health_df, error>>

\* keep='first': row r stays when no earlier row has its key (NaN equals NaN)
KeptByDropDuplicates(key, r) == \A q \in 1..(r - 1) : key[q] /= key[r]

\* line 156
DropDuplicates ==
    /\ main_pc = "dedup"
    /\ LET key == Column(body_mass, CreationDate)
           keep == SelectSeq([r \in 1..Len(key) |-> r],
                             LAMBDA r : KeptByDropDuplicates(key, r))
       IN  body_mass' = TakeRows(body_mass, keep)
    /\ main_pc' = "done"
    /\ UNCHANGED <<sanVars, xmlVars, health_df, error>>

MaxRows == 3

Day1 == <<"2", "0", "2", "3", "-", "0", "1", "-", "0", "1">>
Day2 == <<"2", "0", "2", "3", "-", "0", "1", "-", "1", "0">>
Day3 == <<"2", "0", "2", "3", "-", "0", "1", "-", "0", "2">>
At08 == <<" ", "0", "8">>
At09 == <<" ", "0", "9">>

\* a row under the columns shifted_cols_base, each argument a cell
TableRowOf(type, value, startDate, creationDate) ==
    <<type, NaN, value, NaN, startDate, NaN, creationDate>>

MainRows ==
    { TableRowOf(<<BodyMass>>, <<<<"70">>>>, <<Day2 \o At08>>, <<Day2 \o At08>>),
      TableRowOf(<<BodyMass>>, <<<<"71">>>>, <<Day3 \o At08>>, <<Day3 \o At08>>),
      TableRowOf(<<BodyMass>>, <<<<"72">>>>, <<Day1 \o At09>>, <<Day1 \o At09>>),
      TableRowOf(<<BodyMass>>, <<<<"73">>>>, <<Day1 \o At08>>, <<Day1 \o At08>>),
      TableRowOf(<<BodyMass>>, <<<<"74">>>>, <<Day1>>, NaN),
      TableRowOf(<<BodyMass>>, <<<<"75">>>>, NaN, <<<<"2", "0", "2", "3">>>>),
      TableRowOf(<<<<"HeartRate">>>>, <<<<"60">>>>, <<Day1 \o At08>>, <<Day1 \o At08>>),
      TableRowOf(NaN, NaN, NaN, NaN) }

\* what xml_to_csv returns: a type column holding a string somewhere, rows
\* descending by startDate with the rows without startDate last
ReturnedTables ==
    { t \in { [columns |-> shifted_cols_base, data |-> rows] :
                rows \in UNION { [1..n -> MainRows] : n \in 1..MaxRows } } :
        LET key == Column(t, StartDate)
        IN  /\ HoldsStrings(t, TypeName)
            /\ \A i, j \in 1..Len(key) :
                  i < j =>
                    /\ key[i] = NaN => key[j] = NaN
                    /\ (key[i] /= NaN /\ key[j] /= NaN) => ~StrLess(key[i][1], key[j][1]) }

InitMain ==
    /\ health_df \in ReturnedTables
    /\ error = "none"
    /\ body_mass = <<>>
    /\ main_pc = "filter"
    /\ sanIdle
    /\ doc = <<>>
    /\ attrib = <<>>
    /\ children = <<>>
    /\ ev = 0
    /\ attribute_list = <<>>
    /\ xml_pc = "done"

NextMain ==
    \/ FilterByType
    \/ SelectColumns
    \/ TruncateCreationDate
    \/ SortByCreationDate
    \/ DropDuplicates

SpecMain == InitMain /\ [][NextMain]_vars

(***************************************************************************)
(* Claim about main (checked under SpecMain)                               *)
(***************************************************************************)

First10(v) == [k \in 1..(IF Len(v) < 10 THEN Len(v) ELSE 10) |-> v[k]]

\* the BodyMass rows of the Table, as (type, date, value) with the date cut
BodyMassTriples ==
    { << t[1], IF t[7] = NaN THEN NaN ELSE <<First10(t[7][1])>>, t[3] >> :
        t \in { health_df.data[r] : r \in { q \in 1..Len(health_df.data) :
                                              health_df.data[q][1] = <<BodyMass>> } } }

\* C9: after the filter, projection, truncation, ascending sort and
\* drop-duplicates, the result has exactly one row per distinct truncated
\* creationDate of the BodyMass rows, in strictly ascending date order, and
\* no row of another type.  A missing creationDate counts as one more value,
\* and its row comes last.
C9_OneRowPerDate ==
    main_pc = "done" =>
        LET key == Column(body_mass, CreationDate)
        IN  /\ body_mass.columns = <<TypeName, CreationDate, ValueName>>
            /\ \A r \in 1..Len(body_mass.data) :
                  /\ body_mass.data[r][1] = <<BodyMass>>
                  /\ body_mass.data[r] \in BodyMassTriples
            /\ Range(key) = { t[2] : t \in BodyMassTriples }
            /\ \A i, j \in 1..Len(key) : i < j =>
                  /\ key[i] /= key[j]
                  /\ key[i] /= NaN
                  /\ key[j] /= NaN => LexGeq(key[j][1], key[i][1])

C9_Witness ==
    /\ main_pc = "done"
    /\ Cardinality({ r \in 1..Len(health_df.data) : health_df.data[r][1] = <<BodyMass>> }) = 3
    /\ Len(health_df.data) = 3
    /\ Len(body_mass.data) = 2
    /\ Column(body_mass, CreationDate) = << <<Day1>>, <<Day2>> >>

====
